---- MODULE Spec2Model ----
(***************************************************************************)
(* Post scheduling and delivery subsystem of tashinabi_bot:                *)
(*   - the post_queue / posts tables (src/database/repository.py),         *)
(*   - the cron dispatcher run() (auto_post.py),                           *)
(*   - the schedule page of the Streamlit app (app.py): schedule           *)
(*     registration, "post now" and delete.                                *)
(*                                                                         *)
(* Text values are sequences: a timestamp string is the sequence of its    *)
(* fixed-width numeric fields, an error text is the sequence of its        *)
(* pieces, so that SQLite's text comparison and Python's "; ".join act on  *)
(* what they act on in the program.  A nullable column is a sequence of    *)
(* length 0 (NULL) or 1 (the value).                                       *)
(***************************************************************************)
EXTENDS Naturals, Sequences, FiniteSets

VARIABLES
    now,          \* the wall clock, <<second, microsecond>>
    post_queue,   \* table post_queue: id -> row
    next_id,      \* AUTOINCREMENT counter of post_queue
    posts,        \* table posts: id -> row
    drafts,       \* post ids of the drafts not yet registered (generate_post saves
                  \* one Post per draft, so the ids are consecutive)
    pc,           \* dispatcher process: "idle" or "running" (inside run())
    due_items,    \* run(): the list returned by list_due_queue()
    idx,          \* run(): position of the for loop in due_items
    DRY_RUN,      \* auto_post.py: "--dry-run" in sys.argv
    creds,        \* dispatcher environment: platform -> check_credentials()
    calls,        \* publisher calls made by the current cycle, in order
    written,      \* queue ids written by update_queue_status in the current cycle
    cycle_queue,  \* post_queue as it was when the current cycle started
    cycle_posts,  \* posts as it was when the current cycle started
    published,    \* <<queue id, platform>> of the entries still in the queue for
                  \* which the dispatcher has called the platform's publisher
    api_call      \* the repository call a client of the queue API made last

vars == <<now, post_queue, next_id, posts, drafts, pc, due_items, idx, DRY_RUN,
          creds, calls, written, cycle_queue, cycle_posts, published, api_call>>

----------------------------------------------------------------------------
(* Bounds *)

MaxPosts == 2     \* post ids 1..MaxPosts, one generated draft each
MaxSec   == 1     \* the clock runs over seconds 0..MaxSec
MaxUsec  == 1     \* and microseconds 0..MaxUsec within a second
MaxCalls == 2     \* publisher calls logged while other processes overlap a cycle

PostIds  == 1..MaxPosts
Instants == (0..MaxSec) \X (0..MaxUsec)

----------------------------------------------------------------------------
(* Values *)

NULL == <<>>
Some(v) == <<v>>

Platforms == {"x", "instagram", "facebook", "both"}

TweetIds == {"t123"}
IgIds    == {"ig77"}
FbIds    == {"fb9"}
ExcMsgs  == {"rate limited"}

\* what a publisher call does: returns an id or raises with a message
Returned(ids) == {[ok |-> TRUE, val |-> i] : i \in ids}
Raised        == {[ok |-> FALSE, val |-> m] : m \in ExcMsgs}

X_KEY_UNSET  == <<"X: API key unset">>          \* "X: APIキー未設定"
IG_KEY_UNSET == <<"Instagram: API key unset">>  \* "Instagram: APIキー未設定"
POST_NOT_FOUND == <<"post not found">>
FB_KWARG_ERROR == "update_post_sns_ids() got an unexpected keyword argument 'fb_post_id'"

----------------------------------------------------------------------------
(* Timestamps *)

\* datetime.isoformat(): the microsecond field is omitted when it is 0
IsoFormat(t) == IF t[2] = 0 THEN <<t[1]>> ELSE <<t[1], t[2]>>

Min(a, b) == IF a <= b THEN a ELSE b

\* variant in which a text is never below a text it is a proper prefix of
TextLE_prefix_above(a, b) ==
    LET n == Min(Len(a), Len(b))
        diff == {i \in 1..n : a[i] # b[i]}
    IN  IF diff = {}
        THEN Len(a) >= Len(b)
        ELSE LET k == CHOOSE i \in diff : \A j \in diff : i <= j
             IN  a[k] < b[k]

\* SQLite's comparison of two TEXT values (BINARY collation): the first
\* differing position decides, a proper prefix is smaller
TextLE(a, b) ==
    LET n == Min(Len(a), Len(b))
        diff == {i \in 1..n : a[i] # b[i]}
    IN  IF diff = {}
        THEN Len(a) <= Len(b)
        ELSE LET k == CHOOSE i \in diff : \A j \in diff : i <= j
             IN  a[k] < b[k]

\* the order of instants on the clock
InstantLE(s, t) == s[1] < t[1] \/ (s[1] = t[1] /\ s[2] <= t[2])

----------------------------------------------------------------------------
(* Rows *)

\* variant whose default status is not 'pending'
PostQueue_default_failed(post_id, platform, scheduled_at) ==
    [post_id |-> post_id, platform |-> platform, scheduled_at |-> scheduled_at,
     status |-> "failed", error_msg |-> NULL, posted_at |-> NULL]

\* models.PostQueue with its defaults
PostQueue(post_id, platform, scheduled_at) ==
    [post_id |-> post_id, platform |-> platform, scheduled_at |-> scheduled_at,
     status |-> "pending", error_msg |-> NULL, posted_at |-> NULL]

\* models.Post as saved by generate_post: no platform id yet
Post == [tweet_id |-> NULL, ig_media_id |-> NULL, posted_at |-> NULL]

----------------------------------------------------------------------------
(* Queue repository *)

\* variant without AUTOINCREMENT: the row gets the largest id in use plus one
add_to_queue_max_rowid(q, nid, item, nowStr) ==
    LET top == IF DOMAIN q = {} THEN 0
               ELSE CHOOSE i \in DOMAIN q : \A j \in DOMAIN q : j <= i
    IN  [i \in DOMAIN q \cup {top + 1} |->
            IF i = top + 1
            THEN [id |-> top + 1, post_id |-> item.post_id, platform |-> item.platform,
                  scheduled_at |-> item.scheduled_at, status |-> item.status,
                  error_msg |-> item.error_msg, posted_at |-> item.posted_at,
                  created_at |-> nowStr]
            ELSE q[i]]

\* INSERT INTO post_queue: the row gets the next AUTOINCREMENT id and
\* created_at = now; every other column is taken from the item
add_to_queue(q, nid, item, nowStr) ==
    [i \in DOMAIN q \cup {nid} |->
        IF i = nid
        THEN [id |-> nid, post_id |-> item.post_id, platform |-> item.platform,
              scheduled_at |-> item.scheduled_at, status |-> item.status,
              error_msg |-> item.error_msg, posted_at |-> item.posted_at,
              created_at |-> nowStr]
        ELSE q[i]]

\* variant that lists an entry only once its time has passed
due_rows_strict(q, nowStr) ==
    {q[i] : i \in {j \in DOMAIN q : /\ q[j].status = "pending"
                                    /\ q[j].scheduled_at # nowStr
                                    /\ TextLE(q[j].scheduled_at, nowStr)}}

\* variant that also selects failed rows
due_rows_retry_failed(q, nowStr) ==
    {q[i] : i \in {j \in DOMAIN q : /\ q[j].status \in {"pending", "failed"}
                                    /\ TextLE(q[j].scheduled_at, nowStr)}}

\* the rows selected by  WHERE status='pending' AND scheduled_at <= ?
due_rows(q, nowStr) ==
    {q[i] : i \in {j \in DOMAIN q : /\ q[j].status = "pending"
                                    /\ TextLE(q[j].scheduled_at, nowStr)}}

\* ORDER BY scheduled_at: every arrangement of the rows in which scheduled_at
\* never decreases (SQL leaves the order of equal keys open)
order_by_scheduled_at(rows) ==
    {s \in [1..Cardinality(rows) -> rows] :
        /\ \A i, j \in DOMAIN s : i # j => s[i] # s[j]
        /\ \A i, j \in DOMAIN s : i < j => TextLE(s[i].scheduled_at, s[j].scheduled_at)}

\* the lists list_due_queue() can return at the instant whose text is nowStr
list_due_queue(q, nowStr) == order_by_scheduled_at(due_rows(q, nowStr))

\* reverse of a list
Reverse(s) == [k \in 1..Len(s) |-> s[Len(s) + 1 - k]]

\* list_queue(status): the rows of one status ORDER BY scheduled_at, or
\* (status None) every row ORDER BY scheduled_at DESC
list_queue(q, status) ==
    IF status # NULL
    THEN order_by_scheduled_at({q[i] : i \in {j \in DOMAIN q : q[j].status = status[1]}})
    ELSE {Reverse(s) : s \in order_by_scheduled_at({q[i] : i \in DOMAIN q})}

\* variant that writes the timestamp whatever the status
update_queue_status_always_stamp(q, queue_id, status, error_msg, posted_at, nowStr) ==
    [i \in DOMAIN q |->
        IF i = queue_id
        THEN [q[i] EXCEPT !.status = status,
                          !.error_msg = error_msg,
                          !.posted_at = IF posted_at # NULL THEN posted_at
                                        ELSE Some(nowStr)]
        ELSE q[i]]

\* variant that keeps the stored error_msg when the argument is None
update_queue_status_keep_error(q, queue_id, status, error_msg, posted_at, nowStr) ==
    LET stamp == IF posted_at # NULL THEN posted_at ELSE Some(nowStr)
    IN  [i \in DOMAIN q |->
            IF i = queue_id
            THEN [q[i] EXCEPT !.status = status,
                              !.error_msg = IF error_msg # NULL THEN error_msg
                                            ELSE q[i].error_msg,
                              !.posted_at = IF status = "posted" THEN stamp ELSE NULL]
            ELSE q[i]]

\* variant that ignores the posted_at argument
update_queue_status_stamp_now(q, queue_id, status, error_msg, posted_at, nowStr) ==
    [i \in DOMAIN q |->
        IF i = queue_id
        THEN [q[i] EXCEPT !.status = status,
                          !.error_msg = error_msg,
                          !.posted_at = IF status = "posted" THEN Some(nowStr) ELSE NULL]
        ELSE q[i]]

\* variant that appends the message to the stored one
update_queue_status_append(q, queue_id, status, error_msg, posted_at, nowStr) ==
    LET stamp == IF posted_at # NULL THEN posted_at ELSE Some(nowStr)
    IN  [i \in DOMAIN q |->
            IF i = queue_id
            THEN [q[i] EXCEPT !.status = status,
                              !.error_msg = IF error_msg # NULL /\ q[i].error_msg # NULL
                                            THEN Some(q[i].error_msg[1] \o <<"; ">>
                                                      \o error_msg[1])
                                            ELSE error_msg,
                              !.posted_at = IF status = "posted" THEN stamp ELSE NULL]
            ELSE q[i]]

\* variant without the WHERE clause
update_queue_status_no_where(q, queue_id, status, error_msg, posted_at, nowStr) ==
    LET stamp == IF posted_at # NULL THEN posted_at ELSE Some(nowStr)
    IN  [i \in DOMAIN q |->
            [q[i] EXCEPT !.status = status,
                         !.error_msg = error_msg,
                         !.posted_at = IF status = "posted" THEN stamp ELSE NULL]]

\* variant that writes the outcome with INSERT OR REPLACE, so that a missing
\* row comes back
update_queue_status_upsert(q, queue_id, status, error_msg, posted_at, nowStr) ==
    LET stamp == IF posted_at # NULL THEN posted_at ELSE Some(nowStr)
    IN  [i \in DOMAIN q \cup {queue_id} |->
            IF i = queue_id
            THEN [id |-> queue_id, post_id |-> 0, platform |-> "x",
                  scheduled_at |-> nowStr, status |-> status,
                  error_msg |-> error_msg,
                  posted_at |-> IF status = "posted" THEN stamp ELSE NULL,
                  created_at |-> nowStr]
            ELSE q[i]]

\* UPDATE post_queue SET status=?, error_msg=?, posted_at=? WHERE id=?
update_queue_status(q, queue_id, status, error_msg, posted_at, nowStr) ==
    LET stamp == IF posted_at # NULL THEN posted_at ELSE Some(nowStr)
    IN  [i \in DOMAIN q |->
            IF i = queue_id
            THEN [q[i] EXCEPT !.status = status,
                              !.error_msg = error_msg,
                              !.posted_at = IF status = "posted" THEN stamp ELSE NULL]
            ELSE q[i]]

\* variant that deletes only rows that are not posted
delete_queue_item_keep_posted(q, queue_id) ==
    [i \in {j \in DOMAIN q : j # queue_id \/ q[j].status = "posted"} |-> q[i]]

\* DELETE FROM post_queue WHERE id=?
delete_queue_item(q, queue_id) == [i \in DOMAIN q \ {queue_id} |-> q[i]]

\* SELECT ... FROM post_queue q JOIN posts p ON q.post_id = p.id
list_queue_with_posts(q, p) == {q[i] : i \in {j \in DOMAIN q : q[j].post_id \in DOMAIN p}}

----------------------------------------------------------------------------
(* Posts *)

\* SELECT * FROM posts WHERE id = ?  (None when there is no such row)
get_post(p, post_id) == IF post_id \in DOMAIN p THEN Some(post_id) ELSE NULL

\* variant without COALESCE: a column whose argument is None is set to NULL
update_post_sns_ids_overwrite(p, post_id, tweet_id, ig_media_id, posted_at, nowStr) ==
    [i \in DOMAIN p |->
        IF i = post_id
        THEN [p[i] EXCEPT !.tweet_id = tweet_id,
                          !.ig_media_id = ig_media_id,
                          !.posted_at = IF posted_at # NULL THEN posted_at
                                        ELSE Some(nowStr)]
        ELSE p[i]]

\* UPDATE posts SET tweet_id=COALESCE(?, tweet_id),
\*                  ig_media_id=COALESCE(?, ig_media_id), posted_at=? WHERE id=?
update_post_sns_ids(p, post_id, tweet_id, ig_media_id, posted_at, nowStr) ==
    LET stamp == IF posted_at # NULL THEN posted_at ELSE Some(nowStr)
    IN  [i \in DOMAIN p |->
            IF i = post_id
            THEN [p[i] EXCEPT
                    !.tweet_id = IF tweet_id # NULL THEN tweet_id ELSE p[i].tweet_id,
                    !.ig_media_id = IF ig_media_id # NULL THEN ig_media_id
                                    ELSE p[i].ig_media_id,
                    !.posted_at = stamp]
            ELSE p[i]]

----------------------------------------------------------------------------
(* Dispatcher: the body of the for loop of run() *)

\* variant that keeps the first error only
JoinErrors_first(errors) == IF Len(errors) = 0 THEN <<>> ELSE errors[1]

\* "; ".join(errors)
RECURSIVE JoinErrors(_)
JoinErrors(errors) ==
    IF Len(errors) = 0 THEN <<>>
    ELSE IF Len(errors) = 1 THEN errors[1]
    ELSE errors[1] \o <<"; ">> \o JoinErrors(Tail(errors))

\* variant that calls the publisher without looking at the credentials
attempt_no_cred_check(targeted, cred, res, prefix, unset) ==
    IF ~targeted THEN [called |-> FALSE, errors |-> <<>>, id |-> NULL]
    ELSE IF res.ok THEN [called |-> TRUE, errors |-> <<>>, id |-> Some(res.val)]
    ELSE [called |-> TRUE, errors |-> << <<prefix, res.val>> >>, id |-> NULL]

\* one platform block of run(): nothing when the platform is not targeted, an
\* error text and no call when check_credentials() is false, otherwise the
\* publish call, whose id is kept or whose exception becomes f"{prefix}{e}"
attempt(targeted, cred, res, prefix, unset) ==
    IF ~targeted THEN [called |-> FALSE, errors |-> <<>>, id |-> NULL]
    ELSE IF ~cred THEN [called |-> FALSE, errors |-> <<unset>>, id |-> NULL]
    ELSE IF res.ok THEN [called |-> TRUE, errors |-> <<>>, id |-> Some(res.val)]
    ELSE [called |-> TRUE, errors |-> << <<prefix, res.val>> >>, id |-> NULL]

targets_x(platform)  == platform \in {"x", "both"}
targets_ig(platform) == platform \in {"instagram", "both"}

\* variant that leaves a failed attempt pending, to be tried again
write_outcome_keep_pending(q, queue_id, errors, nowStr) ==
    IF Len(errors) > 0
    THEN update_queue_status(q, queue_id, "pending", Some(JoinErrors(errors)), NULL, nowStr)
    ELSE update_queue_status(q, queue_id, "posted", NULL, NULL, nowStr)

\* variant that does not write a success (as if it were written when the
\* cycle is over)
write_outcome_defer_posted(q, queue_id, errors, nowStr) ==
    IF Len(errors) > 0
    THEN update_queue_status(q, queue_id, "failed", Some(JoinErrors(errors)), NULL, nowStr)
    ELSE q

\* the status update at the end of an attempt: failed with the joined
\* errors, else posted
write_outcome(q, queue_id, errors, nowStr) ==
    IF Len(errors) > 0
    THEN update_queue_status(q, queue_id, "failed", Some(JoinErrors(errors)), NULL, nowStr)
    ELSE update_queue_status(q, queue_id, "posted", NULL, NULL, nowStr)

\* the publisher call records of one entry
call_log(queue_id, xa, xres, iga, igres) ==
    (IF xa.called THEN <<[queue_id |-> queue_id, platform |-> "x", res |-> xres]>>
     ELSE <<>>)
    \o
    (IF iga.called THEN <<[queue_id |-> queue_id, platform |-> "instagram", res |-> igres]>>
     ELSE <<>>)

\* variant that stamps the Post only when no platform failed
run_item_rollback(item, q, p, dry, c, xres, igres, nowStr) ==
    IF get_post(p, item.post_id) = NULL
    THEN [queue |-> update_queue_status(q, item.id, "failed", Some(POST_NOT_FOUND),
                                        NULL, nowStr),
          posts |-> p, calls |-> <<>>, wrote |-> TRUE]
    ELSE IF dry
    THEN [queue |-> q, posts |-> p, calls |-> <<>>, wrote |-> FALSE]
    ELSE
        LET xa  == attempt(targets_x(item.platform), c["x"], xres, "X: ", X_KEY_UNSET)
            p1  == IF xa.id # NULL
                   THEN update_post_sns_ids(p, item.post_id, xa.id, NULL, NULL, nowStr)
                   ELSE p
            iga == attempt(targets_ig(item.platform), c["instagram"], igres, "IG: ",
                           IG_KEY_UNSET)
            p2  == IF iga.id # NULL
                   THEN update_post_sns_ids(p1, item.post_id, NULL, iga.id, NULL, nowStr)
                   ELSE p1
        IN  [queue |-> write_outcome(q, item.id, xa.errors \o iga.errors, nowStr),
             posts |-> IF Len(xa.errors \o iga.errors) > 0 THEN p ELSE p2,
             calls |-> call_log(item.id, xa, xres, iga, igres),
             wrote |-> TRUE]

\* variant that leaves an entry whose Post is missing as it is
run_item_skip_missing(item, q, p, dry, c, xres, igres, nowStr) ==
    IF get_post(p, item.post_id) = NULL \/ dry
    THEN [queue |-> q, posts |-> p, calls |-> <<>>, wrote |-> FALSE]
    ELSE
        LET xa  == attempt(targets_x(item.platform), c["x"], xres, "X: ", X_KEY_UNSET)
            p1  == IF xa.id # NULL
                   THEN update_post_sns_ids(p, item.post_id, xa.id, NULL, NULL, nowStr)
                   ELSE p
            iga == attempt(targets_ig(item.platform), c["instagram"], igres, "IG: ",
                           IG_KEY_UNSET)
            p2  == IF iga.id # NULL
                   THEN update_post_sns_ids(p1, item.post_id, NULL, iga.id, NULL, nowStr)
                   ELSE p1
        IN  [queue |-> write_outcome(q, item.id, xa.errors \o iga.errors, nowStr),
             posts |-> p2,
             calls |-> call_log(item.id, xa, xres, iga, igres),
             wrote |-> TRUE]

\* variant with a claim step: the entry is processed only if the store still
\* holds it as 'pending'
run_item_claim(item, q, p, dry, c, xres, igres, nowStr) ==
    IF ~(item.id \in DOMAIN q /\ q[item.id].status = "pending")
    THEN [queue |-> q, posts |-> p, calls |-> <<>>, wrote |-> FALSE]
    ELSE IF get_post(p, item.post_id) = NULL
    THEN [queue |-> update_queue_status(q, item.id, "failed", Some(POST_NOT_FOUND),
                                        NULL, nowStr),
          posts |-> p, calls |-> <<>>, wrote |-> TRUE]
    ELSE IF dry
    THEN [queue |-> q, posts |-> p, calls |-> <<>>, wrote |-> FALSE]
    ELSE
        LET xa  == attempt(targets_x(item.platform), c["x"], xres, "X: ", X_KEY_UNSET)
            p1  == IF xa.id # NULL
                   THEN update_post_sns_ids(p, item.post_id, xa.id, NULL, NULL, nowStr)
                   ELSE p
            iga == attempt(targets_ig(item.platform), c["instagram"], igres, "IG: ",
                           IG_KEY_UNSET)
            p2  == IF iga.id # NULL
                   THEN update_post_sns_ids(p1, item.post_id, NULL, iga.id, NULL, nowStr)
                   ELSE p1
        IN  [queue |-> write_outcome(q, item.id, xa.errors \o iga.errors, nowStr),
             posts |-> p2,
             calls |-> call_log(item.id, xa, xres, iga, igres),
             wrote |-> TRUE]

\* one iteration of the loop over due_items, for the entry item (a row as
\* list_due_queue returned it), with xres / igres what post_tweet /
\* post_text_only do if they are called
run_item(item, q, p, dry, c, xres, igres, nowStr) ==
    IF get_post(p, item.post_id) = NULL
    THEN [queue |-> update_queue_status(q, item.id, "failed", Some(POST_NOT_FOUND),
                                        NULL, nowStr),
          posts |-> p, calls |-> <<>>, wrote |-> TRUE]
    ELSE IF dry
    THEN [queue |-> q, posts |-> p, calls |-> <<>>, wrote |-> FALSE]
    ELSE
        LET xa  == attempt(targets_x(item.platform), c["x"], xres, "X: ", X_KEY_UNSET)
            p1  == IF xa.id # NULL
                   THEN update_post_sns_ids(p, item.post_id, xa.id, NULL, NULL, nowStr)
                   ELSE p
            iga == attempt(targets_ig(item.platform), c["instagram"], igres, "IG: ",
                           IG_KEY_UNSET)
            p2  == IF iga.id # NULL
                   THEN update_post_sns_ids(p1, item.post_id, NULL, iga.id, NULL, nowStr)
                   ELSE p1
        IN  [queue |-> write_outcome(q, item.id, xa.errors \o iga.errors, nowStr),
             posts |-> p2,
             calls |-> call_log(item.id, xa, xres, iga, igres),
             wrote |-> TRUE]

----------------------------------------------------------------------------
(* Schedule page: "post now" *)

\* variant that offers the button for every row
can_post_now_any(row) == row.status \in {"pending", "failed", "posted"}

\* the button is offered for rows with status pending or failed
can_post_now(row) == row.status \in {"pending", "failed"}

\* variant that records no error when the publish call raises
ui_attempt_swallow(targeted, res, prefix) ==
    IF ~targeted THEN [called |-> FALSE, errors |-> <<>>, id |-> NULL]
    ELSE IF res.ok THEN [called |-> TRUE, errors |-> <<>>, id |-> Some(res.val)]
    ELSE [called |-> TRUE, errors |-> <<>>, id |-> NULL]

\* a platform block of the handler: the publish call is made without a
\* credentials check; its exception becomes f"{prefix}{e}"
ui_attempt(targeted, res, prefix) ==
    IF ~targeted THEN [called |-> FALSE, errors |-> <<>>, id |-> NULL]
    ELSE IF res.ok THEN [called |-> TRUE, errors |-> <<>>, id |-> Some(res.val)]
    ELSE [called |-> TRUE, errors |-> << <<prefix, res.val>> >>, id |-> NULL]

\* the facebook block: after a successful post_text the handler calls
\* update_post_sns_ids(post.id, fb_post_id=fbid); the function has no such
\* parameter, the TypeError is caught by the same except clause
ui_attempt_fb(targeted, res) ==
    IF ~targeted THEN <<>>
    ELSE IF res.ok THEN << <<"FB: ", FB_KWARG_ERROR>> >>
    ELSE << <<"FB: ", res.val>> >>

\* the handler of the button for the displayed row
post_now(row, q, p, xres, igres, fbres, nowStr) ==
    LET xa   == ui_attempt(targets_x(row.platform), xres, "X: ")
        p1   == IF xa.id # NULL
                THEN update_post_sns_ids(p, row.post_id, xa.id, NULL, NULL, nowStr)
                ELSE p
        iga  == ui_attempt(targets_ig(row.platform), igres, "IG: ")
        p2   == IF iga.id # NULL
                THEN update_post_sns_ids(p1, row.post_id, NULL, iga.id, NULL, nowStr)
                ELSE p1
        fberr == ui_attempt_fb(row.platform = "facebook", fbres)
    IN  [queue |-> write_outcome(q, row.id, xa.errors \o iga.errors \o fberr, nowStr),
         posts |-> p2,
         calls |-> call_log(row.id, xa, xres, iga, igres)]

\* str(KeyError("X_API_KEY")) and the EnvironmentError text of _ig_user_id
\* ("IG_USER_ID が設定されていません")
X_KEY_ERROR  == "'X_API_KEY'"
IG_ENV_ERROR == "IG_USER_ID unset"

\* what a publish call does when it is made whatever check_credentials()
\* says: with the check true, what the platform does (res); with it false,
\* post_tweet raises KeyError, or behaves as usual when only X_BEARER_TOKEN
\* is unset, and post_text_only raises EnvironmentError
publish_unchecked(pl, cred, res) ==
    IF cred THEN {res}
    ELSE IF pl = "x" THEN {[ok |-> FALSE, val |-> X_KEY_ERROR], res}
    ELSE {[ok |-> FALSE, val |-> IG_ENV_ERROR]}

----------------------------------------------------------------------------
(* Initial state: an empty queue; each draft of the news page carries the id
   under which generate_post saved its Post.  SQLite does not enforce the
   REFERENCES clause of post_queue.post_id, so the Post row of a draft may be
   gone by the time the entry is dispatched: which Post rows exist is open.
   The clock starts inside second 0. *)

NoCycle == [x |-> TRUE, instagram |-> TRUE]

\* no repository call has been made from outside the pages and the dispatcher
\* (was: status and error_msg of the row an update or delete call found)
NoCall == [op |-> "none", id |-> 0, status |-> "", error_msg |-> NULL,
           posted_at |-> NULL, was |-> NULL]

Init ==
    /\ now = <<0, 1>>
    /\ post_queue = <<>>
    /\ next_id = 1
    /\ posts \in {[i \in S |-> Post] : S \in SUBSET PostIds}
    /\ drafts = PostIds
    /\ pc = "idle"
    /\ due_items = <<>>
    /\ idx = 1
    /\ DRY_RUN = FALSE
    /\ creds = NoCycle
    /\ calls = <<>>
    /\ written = {}
    /\ cycle_queue = <<>>
    /\ cycle_posts = <<>>
    /\ published = {}
    /\ api_call = NoCall

dispatcher_vars == <<pc, due_items, idx, DRY_RUN, creds, calls, written,
                     cycle_queue, cycle_posts, published>>

----------------------------------------------------------------------------
(* Actions *)

\* time passes
Tick ==
    /\ \E t \in Instants : /\ InstantLE(now, t)
                           /\ t # now
                           /\ now' = t
    /\ UNCHANGED <<post_queue, next_id, posts, drafts, dispatcher_vars, api_call>>

\* the drafts of one generation: the next n saved posts, in the order of
\* generation
NextDrafts(n) ==
    LET first == CHOOSE x \in drafts : \A y \in drafts : x <= y
    IN  [k \in 1..n |-> first + k - 1]

\* the loop of the registration handler: one add_to_queue per draft
RECURSIVE add_drafts(_, _, _, _, _, _)
add_drafts(q, nid, order, platform, secs, nowStr) ==
    IF order = <<>> THEN q
    ELSE add_drafts(
            add_to_queue(q, nid,
                         PostQueue(Head(order), platform,
                                   IsoFormat(<<secs[Head(order)], 0>>)),
                         nowStr),
            nid + 1, Tail(order), platform, secs, nowStr)

\* news page, schedule registration: the drafts of one generation (one
\* platform, one time of day each, whole seconds) are queued and dropped
\* from the session
RegisterDrafts ==
    /\ pc = "idle"
    /\ \E n \in 1..Cardinality(drafts), platform \in Platforms :
         LET order == NextDrafts(n)
             D == {order[k] : k \in 1..n}
         IN  /\ \E secs \in [D -> 0..MaxSec] :
                   post_queue' = add_drafts(post_queue, next_id, order, platform,
                                            secs, IsoFormat(now))
             /\ next_id' = next_id + n
             /\ drafts' = drafts \ D
    /\ UNCHANGED <<now, posts, dispatcher_vars, api_call>>

\* run(): list_due_queue(); return at once when nothing is due
RunStart ==
    /\ pc = "idle"
    /\ \E due \in list_due_queue(post_queue, IsoFormat(now)) :
         IF due = <<>>
         THEN UNCHANGED dispatcher_vars
         ELSE /\ pc' = "running"
              /\ due_items' = due
              /\ idx' = 1
              /\ \E dry \in BOOLEAN, c \in [{"x", "instagram"} -> BOOLEAN] :
                   /\ DRY_RUN' = dry
                   /\ creds' = IF dry THEN NoCycle ELSE c
              /\ calls' = <<>>
              /\ written' = {}
              /\ cycle_queue' = post_queue
              /\ cycle_posts' = posts
              /\ UNCHANGED published
    /\ UNCHANGED <<now, post_queue, next_id, posts, drafts, api_call>>

\* run(): one iteration of "for item in due_items"
RunItem ==
    /\ pc = "running"
    /\ idx <= Len(due_items)
    /\ \E xres \in Returned(TweetIds) \cup Raised, igres \in Returned(IgIds) \cup Raised :
         LET item == due_items[idx]
             r == run_item(item, post_queue, posts, DRY_RUN, creds, xres, igres,
                           IsoFormat(now))
         IN  /\ post_queue' = r.queue
             /\ posts' = r.posts
             /\ calls' = calls \o r.calls
             /\ written' = IF r.wrote THEN written \cup {item.id} ELSE written
             /\ published' = published \cup
                    {<<r.calls[k].queue_id, r.calls[k].platform>> : k \in DOMAIN r.calls}
    /\ idx' = idx + 1
    /\ UNCHANGED <<now, next_id, drafts, pc, due_items, DRY_RUN, creds,
                   cycle_queue, cycle_posts, api_call>>

\* variant in which a failed entry ends the cycle
RunEnd_abort_on_failure ==
    /\ pc = "running"
    /\ \/ idx > Len(due_items)
       \/ /\ idx > 1
          /\ due_items[idx - 1].id \in DOMAIN post_queue
          /\ post_queue[due_items[idx - 1].id].status = "failed"
    /\ pc' = "idle"
    /\ due_items' = <<>>
    /\ idx' = 1
    /\ DRY_RUN' = FALSE
    /\ creds' = NoCycle
    /\ calls' = <<>>
    /\ written' = {}
    /\ cycle_queue' = <<>>
    /\ cycle_posts' = <<>>
    /\ UNCHANGED <<now, post_queue, next_id, posts, drafts, published, api_call>>

\* run(): the loop is over, the process exits
RunEnd ==
    /\ pc = "running"
    /\ idx > Len(due_items)
    /\ pc' = "idle"
    /\ due_items' = <<>>
    /\ idx' = 1
    /\ DRY_RUN' = FALSE
    /\ creds' = NoCycle
    /\ calls' = <<>>
    /\ written' = {}
    /\ cycle_queue' = <<>>
    /\ cycle_posts' = <<>>
    /\ UNCHANGED <<now, post_queue, next_id, posts, drafts, published, api_call>>

\* schedule page: the "post now" button of a displayed row
PostNow ==
    /\ pc = "idle"
    /\ \E row \in list_queue_with_posts(post_queue, posts) :
         /\ can_post_now(row)
         /\ \E xres \in Returned(TweetIds) \cup Raised,
               igres \in Returned(IgIds) \cup Raised,
               fbres \in Returned(FbIds) \cup Raised :
              LET r == post_now(row, post_queue, posts, xres, igres, fbres,
                                IsoFormat(now))
              IN  /\ post_queue' = r.queue
                  /\ posts' = r.posts
    /\ UNCHANGED <<now, next_id, drafts, dispatcher_vars, api_call>>

\* schedule page: the delete button of a displayed row
DeleteItem ==
    /\ pc = "idle"
    /\ \E row \in list_queue_with_posts(post_queue, posts) :
         /\ post_queue' = delete_queue_item(post_queue, row.id)
         /\ published' = {pr \in published : pr[1] # row.id}
    /\ UNCHANGED <<now, next_id, posts, drafts, pc, due_items, idx, DRY_RUN, creds,
                   calls, written, cycle_queue, cycle_posts, api_call>>

Next ==
    \/ Tick
    \/ RegisterDrafts
    \/ RunStart
    \/ RunItem
    \/ RunEnd
    \/ PostNow
    \/ DeleteItem

Spec == Init /\ [][Next]_vars

----------------------------------------------------------------------------
(* The queue API called directly: a client of the repository adds, updates
   and deletes entries with arguments of its own choice.  Every Post row
   exists; the pages and the dispatcher stay out. *)

\* the error texts and the timestamp a client passes
ApiErrors == {Some(POST_NOT_FOUND), Some(<<"X: ", "rate limited">>)}
ApiStamps == {Some(IsoFormat(<<0, 0>>))}

InitRepo ==
    /\ Init
    /\ posts = [i \in PostIds |-> Post]

\* add_to_queue(PostQueue(post_id, platform, scheduled_at)) for the Post saved
\* last, with the default status or with status='failed' passed by the caller
RepoAdd ==
    /\ next_id <= MaxPosts
    /\ \E sec \in 0..MaxSec, status \in {"pending", "failed"} :
         /\ post_queue' = add_to_queue(post_queue, next_id,
                                       [PostQueue(next_id, "x", IsoFormat(<<sec, 0>>))
                                            EXCEPT !.status = status],
                                       IsoFormat(now))
         /\ api_call' = [NoCall EXCEPT !.op = "add", !.id = next_id,
                                       !.status = status]
    /\ next_id' = next_id + 1
    /\ UNCHANGED <<now, posts, drafts, dispatcher_vars>>

\* update_queue_status(queue_id, status, error_msg, posted_at), also for an
\* id the table does not hold
RepoUpdate ==
    /\ \E queue_id \in 1..MaxPosts,
          status \in {"pending", "posted", "failed"},
          error_msg \in {NULL} \cup ApiErrors,
          posted_at \in {NULL} \cup ApiStamps :
         /\ post_queue' = update_queue_status(post_queue, queue_id, status, error_msg,
                                              posted_at, IsoFormat(now))
         /\ api_call' = [op |-> "update", id |-> queue_id, status |-> status,
                         error_msg |-> error_msg, posted_at |-> posted_at,
                         was |-> IF queue_id \in DOMAIN post_queue
                                 THEN Some(<<post_queue[queue_id].status,
                                             post_queue[queue_id].error_msg>>)
                                 ELSE NULL]
    /\ UNCHANGED <<now, next_id, posts, drafts, dispatcher_vars>>

\* delete_queue_item(queue_id), also for an id the table does not hold
RepoDelete ==
    /\ \E queue_id \in 1..MaxPosts :
         /\ post_queue' = delete_queue_item(post_queue, queue_id)
         /\ api_call' = [NoCall EXCEPT !.op = "delete", !.id = queue_id,
                                       !.was = IF queue_id \in DOMAIN post_queue
                                               THEN Some(<<post_queue[queue_id].status,
                                                           post_queue[queue_id].error_msg>>)
                                               ELSE NULL]
    /\ UNCHANGED <<now, next_id, posts, drafts, dispatcher_vars>>

NextRepo ==
    \/ Tick
    \/ RepoAdd
    \/ RepoUpdate
    \/ RepoDelete

SpecRepo == InitRepo /\ [][NextRepo]_vars

----------------------------------------------------------------------------
(* The dispatcher with a failing store: a repository call raises
   sqlite3.OperationalError.  run() has no handler of its own, so the error
   leaves run() and ends the process, except where the call stands inside
   the try block of a platform: update_post_sns_ids follows the publish call
   inside "try: ... except Exception as e". *)

STORE_ERROR == "database is locked"

\* the repository calls of one loop iteration
StoreCalls == {"get_post", "stamp_x", "stamp_ig", "update_queue_status"}

\* a platform block whose update_post_sns_ids raises after the publish call
\* returned: the except clause turns the store error into f"{prefix}{e}"
attempt_stamp_fails(targeted, cred, res, prefix, unset) ==
    IF targeted /\ cred /\ res.ok
    THEN [called |-> TRUE, errors |-> << <<prefix, STORE_ERROR>> >>, id |-> NULL]
    ELSE attempt(targeted, cred, res, prefix, unset)

\* whether the iteration for item makes the repository call `failing`
makes_call(failing, item, p, dry, c, xres, igres) ==
    CASE failing = "get_post" -> TRUE
      [] failing = "stamp_x" ->
            /\ get_post(p, item.post_id) # NULL /\ ~dry
            /\ targets_x(item.platform) /\ c["x"] /\ xres.ok
      [] failing = "stamp_ig" ->
            /\ get_post(p, item.post_id) # NULL /\ ~dry
            /\ targets_ig(item.platform) /\ c["instagram"] /\ igres.ok
      [] failing = "update_queue_status" ->
            get_post(p, item.post_id) = NULL \/ ~dry

\* one iteration of the loop in which the repository call `failing` raises;
\* raised: the error leaves run()
run_item_store_error(item, q, p, dry, c, xres, igres, failing, nowStr) ==
    IF failing = "get_post" \/ get_post(p, item.post_id) = NULL
    THEN [queue |-> q, posts |-> p, calls |-> <<>>, wrote |-> FALSE, raised |-> TRUE]
    ELSE
        LET xa  == IF failing = "stamp_x"
                   THEN attempt_stamp_fails(targets_x(item.platform), c["x"], xres,
                                            "X: ", X_KEY_UNSET)
                   ELSE attempt(targets_x(item.platform), c["x"], xres, "X: ",
                                X_KEY_UNSET)
            p1  == IF xa.id # NULL
                   THEN update_post_sns_ids(p, item.post_id, xa.id, NULL, NULL, nowStr)
                   ELSE p
            iga == IF failing = "stamp_ig"
                   THEN attempt_stamp_fails(targets_ig(item.platform), c["instagram"],
                                            igres, "IG: ", IG_KEY_UNSET)
                   ELSE attempt(targets_ig(item.platform), c["instagram"], igres,
                                "IG: ", IG_KEY_UNSET)
            p2  == IF iga.id # NULL
                   THEN update_post_sns_ids(p1, item.post_id, NULL, iga.id, NULL, nowStr)
                   ELSE p1
            log == call_log(item.id, xa, xres, iga, igres)
        IN  IF failing = "update_queue_status"
            THEN [queue |-> q, posts |-> p2, calls |-> log, wrote |-> FALSE,
                  raised |-> TRUE]
            ELSE [queue |-> write_outcome(q, item.id, xa.errors \o iga.errors, nowStr),
                  posts |-> p2, calls |-> log, wrote |-> TRUE, raised |-> FALSE]

\* run(): list_due_queue() raises; the process ends before the loop
RunStartStoreError ==
    /\ pc = "idle"
    /\ UNCHANGED vars

\* run(): an iteration in which a repository call raises; the loop goes on
\* when the error was caught, the process ends when it was not
RunItemStoreError ==
    /\ pc = "running"
    /\ idx <= Len(due_items)
    /\ \E xres \in Returned(TweetIds) \cup Raised, igres \in Returned(IgIds) \cup Raised,
          failing \in StoreCalls :
         LET item == due_items[idx]
             r == run_item_store_error(item, post_queue, posts, DRY_RUN, creds, xres,
                                       igres, failing, IsoFormat(now))
         IN  /\ makes_call(failing, item, posts, DRY_RUN, creds, xres, igres)
             /\ post_queue' = r.queue
             /\ posts' = r.posts
             /\ published' = published \cup
                    {<<r.calls[k].queue_id, r.calls[k].platform>> : k \in DOMAIN r.calls}
             /\ IF r.raised
                THEN /\ pc' = "idle"
                     /\ due_items' = <<>>
                     /\ idx' = 1
                     /\ DRY_RUN' = FALSE
                     /\ creds' = NoCycle
                     /\ calls' = <<>>
                     /\ written' = {}
                     /\ cycle_queue' = <<>>
                     /\ cycle_posts' = <<>>
                ELSE /\ calls' = calls \o r.calls
                     /\ written' = written \cup {item.id}
                     /\ idx' = idx + 1
                     /\ UNCHANGED <<pc, due_items, DRY_RUN, creds, cycle_queue,
                                    cycle_posts>>
    /\ UNCHANGED <<now, next_id, drafts, api_call>>

\* (the clock stands still: the entries scheduled for second 0 are due, the
\* others are not)
NextStoreFail ==
    \/ RegisterDrafts
    \/ RunStart
    \/ RunItem
    \/ RunEnd
    \/ RunStartStoreError
    \/ RunItemStoreError

SpecStoreFail == Init /\ [][NextStoreFail]_vars

----------------------------------------------------------------------------
(* The dispatcher killed between two entries: the process ends before the
   loop touches its next entry (machine stop, kill, cron timeout), and cron
   starts fresh cycles afterwards. *)

\* the process dies before get_post of the entry at position idx
Crash ==
    /\ pc = "running"
    /\ idx <= Len(due_items)
    /\ pc' = "idle"
    /\ due_items' = <<>>
    /\ idx' = 1
    /\ DRY_RUN' = FALSE
    /\ creds' = NoCycle
    /\ calls' = <<>>
    /\ written' = {}
    /\ cycle_queue' = <<>>
    /\ cycle_posts' = <<>>
    /\ UNCHANGED <<now, post_queue, next_id, posts, drafts, published, api_call>>

NextCrash ==
    \/ Tick
    \/ RegisterDrafts
    \/ RunStart
    \/ RunItem
    \/ RunEnd
    \/ Crash

SpecCrash == Init /\ [][NextCrash]_vars

----------------------------------------------------------------------------
(* Overlapping invocations: while one dispatcher process is inside run(),
   between list_due_queue() and the end of its loop, a page handler or a
   second dispatcher process runs.  Nothing in run() or in the handlers
   locks or re-reads an entry.  Here calls logs the publisher calls any
   process makes while the cycle runs.  The clock stands still. *)

\* the whole loop of a non-dry-run invocation over its batch
RECURSIVE run_batch(_, _, _, _, _, _, _)
run_batch(items, q, p, c, xres, igres, nowStr) ==
    IF items = <<>> THEN [queue |-> q, posts |-> p, calls |-> <<>>]
    ELSE LET r    == run_item(Head(items), q, p, FALSE, c, xres, igres, nowStr)
             rest == run_batch(Tail(items), r.queue, r.posts, c, xres, igres, nowStr)
         IN  [queue |-> rest.queue, posts |-> rest.posts, calls |-> r.calls \o rest.calls]

\* a second dispatcher process runs a whole non-dry-run cycle while the
\* first is inside its loop
OtherCycle ==
    /\ pc = "running"
    /\ \E due \in list_due_queue(post_queue, IsoFormat(now)),
          c \in [{"x", "instagram"} -> BOOLEAN],
          xres \in Returned(TweetIds) \cup Raised,
          igres \in Returned(IgIds) \cup Raised :
         LET r == run_batch(due, post_queue, posts, c, xres, igres, IsoFormat(now))
         IN  /\ due # <<>>
             /\ Len(calls \o r.calls) <= MaxCalls
             /\ post_queue' = r.queue
             /\ posts' = r.posts
             /\ calls' = calls \o r.calls
             /\ published' = published \cup
                    {<<r.calls[k].queue_id, r.calls[k].platform>> : k \in DOMAIN r.calls}
    /\ UNCHANGED <<now, next_id, drafts, pc, due_items, idx, DRY_RUN, creds, written,
                   cycle_queue, cycle_posts, api_call>>

\* the "post now" button pressed while the dispatcher is inside its loop
PostNowDuringCycle ==
    /\ pc = "running"
    /\ \E row \in list_queue_with_posts(post_queue, posts) :
         /\ can_post_now(row)
         /\ \E xres \in Returned(TweetIds) \cup Raised,
               igres \in Returned(IgIds) \cup Raised,
               fbres \in Returned(FbIds) \cup Raised :
              LET r == post_now(row, post_queue, posts, xres, igres, fbres,
                                IsoFormat(now))
              IN  /\ Len(calls \o r.calls) <= MaxCalls
                  /\ post_queue' = r.queue
                  /\ posts' = r.posts
                  /\ calls' = calls \o r.calls
    /\ UNCHANGED <<now, next_id, drafts, pc, due_items, idx, DRY_RUN, creds, written,
                   cycle_queue, cycle_posts, published, api_call>>

\* the delete button pressed while the dispatcher is inside its loop
DeleteDuringCycle ==
    /\ pc = "running"
    /\ \E row \in list_queue_with_posts(post_queue, posts) :
         /\ post_queue' = delete_queue_item(post_queue, row.id)
         /\ published' = {pr \in published : pr[1] # row.id}
    /\ UNCHANGED <<now, next_id, posts, drafts, pc, due_items, idx, DRY_RUN, creds,
                   calls, written, cycle_queue, cycle_posts, api_call>>

\* the "post now" handler has read its row and is publishing when the row
\* is deleted from another session: its outcome write finds no row
PostNowDeleteRace ==
    /\ pc = "idle"
    /\ \E row \in list_queue_with_posts(post_queue, posts) :
         /\ can_post_now(row)
         /\ \E xres \in Returned(TweetIds) \cup Raised,
               igres \in Returned(IgIds) \cup Raised,
               fbres \in Returned(FbIds) \cup Raised :
              LET r == post_now(row, delete_queue_item(post_queue, row.id), posts,
                                xres, igres, fbres, IsoFormat(now))
              IN  /\ Len(calls \o r.calls) <= MaxCalls
                  /\ post_queue' = r.queue
                  /\ posts' = r.posts
                  /\ calls' = calls \o r.calls
                  /\ published' = {pr \in published : pr[1] # row.id}
    /\ UNCHANGED <<now, next_id, drafts, pc, due_items, idx, DRY_RUN, creds, written,
                   cycle_queue, cycle_posts, api_call>>

\* a cycle overlapped by publishing processes
NextOverlap ==
    \/ RegisterDrafts
    \/ RunStart
    \/ RunItem
    \/ RunEnd
    \/ OtherCycle
    \/ PostNowDuringCycle

SpecOverlap == Init /\ [][NextOverlap]_vars

\* a cycle or a "post now" overlapped by deletions
NextDeleteRace ==
    \/ RegisterDrafts
    \/ RunStart
    \/ RunItem
    \/ RunEnd
    \/ DeleteDuringCycle
    \/ PostNowDeleteRace

SpecDeleteRace == Init /\ [][NextDeleteRace]_vars

----------------------------------------------------------------------------
TypeOK ==
    /\ now \in Instants
    /\ pc \in {"idle", "running"}
    /\ \A i \in DOMAIN post_queue :
         /\ post_queue[i].id = i
         /\ post_queue[i].status \in {"pending", "posted", "failed"}
         /\ post_queue[i].platform \in Platforms
         /\ i < next_id

----------------------------------------------------------------------------
(* Vocabulary of the properties.  A dispatch cycle is observed while
   pc = "running": the entries due_items[1..idx-1] have been processed, and
   when idx > Len(due_items) the loop is over and the cycle's effect is
   complete. *)

Processed == IF pc = "running" THEN 1..(idx - 1) ELSE {}
LoopDone  == pc = "running" /\ idx > Len(due_items)

\* the platforms an entry's platform value asks the dispatcher to publish to
TargetSet(platform) ==
    CASE platform = "x" -> {"x"}
      [] platform = "instagram" -> {"instagram"}
      [] platform = "both" -> {"x", "instagram"}
      [] OTHER -> {}

\* the publisher calls of the current cycle for an entry and a platform
CallsOf(id, pl) ==
    {k \in DOMAIN calls : calls[k].queue_id = id /\ calls[k].platform = pl}

\* the external id a Post row carries for a platform
StampOf(post, pl) == IF pl = "x" THEN post.tweet_id ELSE post.ig_media_id

PostExisted(item) == item.post_id \in DOMAIN cycle_posts

AllSucceeded(item) ==
    \A pl \in TargetSet(item.platform) :
        creds[pl] /\ \E k \in CallsOf(item.id, pl) : calls[k].res.ok

SomeRaised(item) ==
    \E pl \in TargetSet(item.platform) : \E k \in CallsOf(item.id, pl) : ~calls[k].res.ok

\* text s contains text sub
Contains(s, sub) ==
    \E i \in 0..(Len(s) - Len(sub)) : SubSeq(s, i + 1, i + Len(sub)) = sub

Prefix(pl) == IF pl = "x" THEN "X: " ELSE "IG: "

----------------------------------------------------------------------------
\* C1: in a non-dry-run cycle, every processed entry of the due batch whose
\* Post exists and whose targeted platforms all had credentials and returned
\* an id is 'posted' with posted_at set and error_msg null, and its Post
\* carries the id each targeted platform returned.
C1_AllSucceededPosted ==
    (pc = "running" /\ ~DRY_RUN) =>
        \A k \in Processed :
            LET item == due_items[k] IN
            (PostExisted(item) /\ AllSucceeded(item)) =>
                /\ item.id \in DOMAIN post_queue
                /\ post_queue[item.id].status = "posted"
                /\ post_queue[item.id].posted_at # NULL
                /\ post_queue[item.id].error_msg = NULL
                /\ \A pl \in TargetSet(item.platform) :
                     \A c \in CallsOf(item.id, pl) :
                        StampOf(posts[item.post_id], pl) = Some(calls[c].res.val)

\* a finished cycle in which a 'both' entry was published on X and Instagram
C1_Witness ==
    /\ LoopDone /\ ~DRY_RUN
    /\ \E k \in Processed :
         /\ due_items[k].platform = "both"
         /\ PostExisted(due_items[k])
         /\ AllSucceeded(due_items[k])
         /\ posts[due_items[k].post_id].tweet_id # NULL
         /\ posts[due_items[k].post_id].ig_media_id # NULL

\* C2: in a non-dry-run cycle, every processed entry for which a targeted
\* platform's publish call raised is 'failed' with posted_at null and an
\* error_msg containing "X: <message>" / "IG: <message>" of each call that
\* raised; when both calls raised the text is the two joined by "; ".
C2_RaisedFailed ==
    (pc = "running" /\ ~DRY_RUN) =>
        \A k \in Processed :
            LET item == due_items[k]
                row  == post_queue[item.id]
            IN
            SomeRaised(item) =>
                /\ row.status = "failed"
                /\ row.posted_at = NULL
                /\ row.error_msg # NULL
                /\ \A pl \in TargetSet(item.platform) :
                     \A c \in CallsOf(item.id, pl) :
                        ~calls[c].res.ok =>
                            Contains(row.error_msg[1], <<Prefix(pl), calls[c].res.val>>)
                /\ \A cx \in CallsOf(item.id, "x"), ci \in CallsOf(item.id, "instagram") :
                     (~calls[cx].res.ok /\ ~calls[ci].res.ok) =>
                        row.error_msg[1] = <<"X: ", calls[cx].res.val, "; ",
                                             "IG: ", calls[ci].res.val>>

\* a finished cycle in which both publish calls of a 'both' entry raised
C2_Witness ==
    /\ LoopDone /\ ~DRY_RUN
    /\ \E k \in Processed :
         /\ \E c \in CallsOf(due_items[k].id, "x") : ~calls[c].res.ok
         /\ \E c \in CallsOf(due_items[k].id, "instagram") : ~calls[c].res.ok
         /\ post_queue[due_items[k].id].status = "failed"

\* C3: for a 'both' entry whose one publish call returned an id and whose
\* other publish call raised, the cycle leaves the entry 'failed' with
\* error_msg naming the platform that raised, and the Post stamped with the id
\* of the platform that succeeded.
C3_PartialSuccess ==
    (pc = "running" /\ ~DRY_RUN) =>
        \A k \in Processed :
            LET item == due_items[k] IN
            item.platform = "both" =>
                \A ok \in {"x", "instagram"}, bad \in {"x", "instagram"} :
                    \A co \in CallsOf(item.id, ok), cb \in CallsOf(item.id, bad) :
                        (calls[co].res.ok /\ ~calls[cb].res.ok) =>
                            /\ post_queue[item.id].status = "failed"
                            /\ post_queue[item.id].error_msg =
                                    Some(<<Prefix(bad), calls[cb].res.val>>)
                            /\ StampOf(posts[item.post_id], ok) = Some(calls[co].res.val)

\* the scenario of the specification: X returned an id, Instagram raised
C3_Witness ==
    /\ LoopDone /\ ~DRY_RUN
    /\ \E k \in Processed :
         /\ due_items[k].platform = "both"
         /\ \E c \in CallsOf(due_items[k].id, "x") : calls[c].res.ok
         /\ \E c \in CallsOf(due_items[k].id, "instagram") : ~calls[c].res.ok
         /\ posts[due_items[k].post_id].tweet_id = Some("t123")
         /\ post_queue[due_items[k].id].error_msg = Some(<<"IG: ", "rate limited">>)

\* the instant a timestamp text denotes
ParseIso(s) == <<s[1], IF Len(s) >= 2 THEN s[2] ELSE 0>>

\* C4: at every instant t, list_due_queue returns exactly the entries with
\* status 'pending' and scheduled_at <= t, whatever the insertion order, each
\* once, in ascending scheduled_at order.
C4_ListDueExact ==
    \A t \in Instants :
        /\ list_due_queue(post_queue, IsoFormat(t)) # {}
        /\ \A due \in list_due_queue(post_queue, IsoFormat(t)) :
             /\ {due[k] : k \in DOMAIN due} =
                    {post_queue[i] : i \in {j \in DOMAIN post_queue :
                        /\ post_queue[j].status = "pending"
                        /\ InstantLE(ParseIso(post_queue[j].scheduled_at), t)}}
             /\ \A k, l \in DOMAIN due :
                    k < l => /\ due[k] # due[l]
                             /\ InstantLE(ParseIso(due[k].scheduled_at),
                                          ParseIso(due[l].scheduled_at))

\* two pending entries inserted in descending schedule order, both due at an
\* instant whose text has a microsecond part
C4_Witness ==
    /\ now = <<1, 1>>
    /\ \E i, j \in DOMAIN post_queue :
         /\ i < j
         /\ post_queue[i].status = "pending"
         /\ post_queue[j].status = "pending"
         /\ post_queue[i].scheduled_at = <<1>>
         /\ post_queue[j].scheduled_at = <<0>>

\* C5: a processed entry whose Post does not exist is 'failed' with error_msg
\* exactly "post not found", no publisher call was made for it, and the
\* entries after it in the batch are processed all the same.
C5_PostNotFound ==
    pc = "running" =>
        \A k \in Processed :
            LET item == due_items[k] IN
            ~PostExisted(item) =>
                /\ post_queue[item.id].status = "failed"
                /\ post_queue[item.id].error_msg = Some(<<"post not found">>)
                /\ \A c \in DOMAIN calls : calls[c].queue_id # item.id
                /\ (LoopDone /\ ~DRY_RUN) =>
                      \A l \in DOMAIN due_items :
                          l > k => post_queue[due_items[l].id].status # "pending"

\* a finished cycle whose first entry had no Post and whose second entry was
\* published
C5_Witness ==
    /\ LoopDone /\ ~DRY_RUN
    /\ Len(due_items) >= 2
    /\ ~PostExisted(due_items[1])
    /\ post_queue[due_items[1].id].error_msg = Some(<<"post not found">>)
    /\ PostExisted(due_items[2])
    /\ post_queue[due_items[2].id].status = "posted"
    /\ \E c \in DOMAIN calls : calls[c].queue_id = due_items[2].id

\* C6: during a dry-run cycle no publisher is called and every queue entry's
\* status, error_msg and posted_at and every Post's platform ids are as they
\* were when the cycle started.
C6_DryRunNoEffect ==
    (pc = "running" /\ DRY_RUN) =>
        /\ calls = <<>>
        /\ DOMAIN post_queue = DOMAIN cycle_queue
        /\ \A i \in DOMAIN post_queue :
             /\ post_queue[i].status = cycle_queue[i].status
             /\ post_queue[i].error_msg = cycle_queue[i].error_msg
             /\ post_queue[i].posted_at = cycle_queue[i].posted_at
        /\ \A i \in DOMAIN posts :
             /\ posts[i].tweet_id = cycle_posts[i].tweet_id
             /\ posts[i].ig_media_id = cycle_posts[i].ig_media_id

\* C7: a dispatch cycle does not touch an entry that was 'failed' or 'posted'
\* when the cycle started: the entry is not in the batch, no publisher is
\* called for it and the cycle does not write it.
C7_NoAutomaticRetry ==
    pc = "running" =>
        \A i \in DOMAIN cycle_queue :
            cycle_queue[i].status \in {"failed", "posted"} =>
                /\ \A k \in DOMAIN due_items : due_items[k].id # i
                /\ \A c \in DOMAIN calls : calls[c].queue_id # i
                /\ i \notin written
                /\ i \in DOMAIN post_queue
                /\ post_queue[i] = cycle_queue[i]

\* a finished cycle that published another entry while a failed entry was
\* past its schedule
C7_Witness ==
    /\ LoopDone /\ ~DRY_RUN
    /\ calls # <<>>
    /\ \E i \in DOMAIN cycle_queue :
         /\ cycle_queue[i].status = "failed"
         /\ InstantLE(ParseIso(cycle_queue[i].scheduled_at), now)

\* the publisher calls a step of the dispatcher adds to the cycle's log
NewCalls == (Len(calls) + 1)..Len(calls')

C8_Step ==
    (pc = "running" /\ pc' = "running" /\ idx' = idx + 1) =>
        /\ \A k \in NewCalls :
             <<calls'[k].queue_id, calls'[k].platform>> \notin published
        /\ \A k, l \in NewCalls :
             k # l => calls'[k].platform # calls'[l].platform
        /\ ~DRY_RUN => post_queue'[due_items[idx].id].status # "pending"

\* C8: over any sequence of cycles the dispatcher calls a platform's
\* publisher for an entry at most once: a step that processes an entry never
\* calls a publisher the dispatcher has called for that entry before, and a
\* non-dry-run step always moves the entry out of 'pending'.
C8_AtMostOnce == [][C8_Step]_vars

\* a later cycle is publishing while an entry an earlier cycle published
\* (and failed) is still in the queue, past its schedule
C8_Witness ==
    /\ pc = "running" /\ ~DRY_RUN
    /\ calls # <<>>
    /\ \E pr \in published :
         /\ pr[1] \in DOMAIN cycle_queue
         /\ cycle_queue[pr[1]].status = "failed"
         /\ InstantLE(ParseIso(cycle_queue[pr[1]].scheduled_at), now)

C9_Step ==
    \A i \in DOMAIN post_queue \cap DOMAIN post_queue' :
        /\ post_queue'[i].status = "pending" => post_queue[i].status = "pending"
        /\ post_queue[i].status = "posted" => post_queue'[i].status = "posted"

\* C9: no step of add, dispatch, 'post now' or delete sets an entry's status
\* back to 'pending', and an entry that is 'posted' keeps that status as long
\* as it exists.
C9_StatusForward == [][C9_Step]_vars

\* a posted entry next to an entry that a 'post now' attempt left failed
C9_Witness ==
    \E i, j \in DOMAIN post_queue :
        /\ post_queue[i].status = "posted"
        /\ post_queue[j].status = "failed"
        /\ post_queue[j].error_msg = Some(<<"FB: ", FB_KWARG_ERROR>>)

\* C10: for every queue entry, posted_at is non-null exactly when status is
\* 'posted'.
C10_PostedAtIffPosted ==
    \A i \in DOMAIN post_queue :
        post_queue[i].posted_at # NULL <=> post_queue[i].status = "posted"

\* a posted entry stamped at the current instant next to a failed entry
\* without a stamp
C10_Witness ==
    \E i, j \in DOMAIN post_queue :
        /\ post_queue[i].status = "posted"
        /\ post_queue[i].posted_at = Some(IsoFormat(now))
        /\ post_queue[j].status = "failed"
        /\ post_queue[j].posted_at = NULL
        /\ post_queue[j].error_msg = Some(<<"X: ", "rate limited">>)

----------------------------------------------------------------------------
\* C11: for every queue entry, error_msg is non-null exactly when its status
\* is 'failed' (the status the most recent transition left), and error_msg
\* and posted_at are never both non-null.
C11_ErrorMsgIffFailed ==
    \A i \in DOMAIN post_queue :
        /\ post_queue[i].error_msg # NULL <=> post_queue[i].status = "failed"
        /\ ~(post_queue[i].error_msg # NULL /\ post_queue[i].posted_at # NULL)

\* after a cycle that left an entry failed, a 'post now' of an entry whose
\* tweet went out: the one carries the error text and no stamp, the other a
\* stamp and no error text
C11_Witness ==
    /\ pc = "idle"
    /\ \E i, j \in DOMAIN post_queue :
         /\ post_queue[i].status = "failed"
         /\ post_queue[i].error_msg = Some(X_KEY_UNSET)
         /\ post_queue[i].posted_at = NULL
         /\ post_queue[j].status = "posted"
         /\ post_queue[j].error_msg = NULL
         /\ post_queue[j].posted_at # NULL
         /\ <<j, "x">> \notin published
         /\ post_queue[j].post_id \in DOMAIN posts
         /\ posts[post_queue[j].post_id].tweet_id # NULL

----------------------------------------------------------------------------
\* the entry a direct update call names, after the call
CallRow2 == post_queue'[api_call'.id]

\* the step is a direct call update_queue_status(id, status, ...) on an
\* existing entry (the clock stands still during a call)
IsUpdateTo(status) ==
    /\ now' = now
    /\ api_call'.op = "update"
    /\ api_call'.status = status
    /\ api_call'.id \in DOMAIN post_queue

C12_Step ==
    (IsUpdateTo("posted") /\ api_call'.error_msg = NULL) =>
        /\ api_call'.id \in DOMAIN post_queue'
        /\ CallRow2.status = "posted"
        /\ CallRow2.posted_at = IF api_call'.posted_at # NULL
                                THEN api_call'.posted_at
                                ELSE Some(IsoFormat(now))
        /\ CallRow2.error_msg = NULL

C13_Step ==
    (IsUpdateTo("failed") /\ api_call'.error_msg # NULL) =>
        /\ api_call'.id \in DOMAIN post_queue'
        /\ CallRow2.status = "failed"
        /\ CallRow2.posted_at = NULL
        /\ CallRow2.error_msg = api_call'.error_msg

\* C13: every call update_queue_status(id, 'failed', msg), with or without
\* a posted_at argument, on an existing entry of whatever prior state leaves
\* posted_at null and error_msg equal to msg: the text is overwritten, not
\* appended to.
C13_FailedOverwrites == [][C13_Step]_vars

\* a call with a posted_at argument on an entry that was posted, and one
\* with a new text on an entry that was failed with another text
C13_Witness ==
    /\ api_call.op = "update" /\ api_call.status = "failed"
    /\ api_call.id \in DOMAIN post_queue
    /\ \/ /\ api_call.was = Some(<<"posted", NULL>>)
          /\ api_call.posted_at # NULL
          /\ api_call.error_msg = Some(POST_NOT_FOUND)
          /\ post_queue[api_call.id].posted_at = NULL
       \/ /\ api_call.was = Some(<<"failed", Some(<<"X: ", "rate limited">>)>>)
          /\ api_call.error_msg = Some(POST_NOT_FOUND)
          /\ post_queue[api_call.id].error_msg = Some(POST_NOT_FOUND)

----------------------------------------------------------------------------
\* no entry is pending with its scheduled time reached
NothingDue ==
    \A i \in DOMAIN post_queue :
        \/ post_queue[i].status # "pending"
        \/ ~InstantLE(ParseIso(post_queue[i].scheduled_at), now)

C14_Step ==
    (pc = "idle" /\ NothingDue) =>
        /\ list_due_queue(post_queue, IsoFormat(now)) = {<<>>}
        /\ pc' = "idle"
        /\ UNCHANGED <<due_items, idx, DRY_RUN, creds, calls, written, cycle_queue,
                       cycle_posts>>
        /\ published' \subseteq published

\* C14: when no entry is due the dispatcher's batch is empty and a cycle
\* started then returns at once: it does not enter the loop, calls no
\* publisher and writes nothing, so a second cycle right after it finds the
\* store as the first left it.
C14_EmptyCycleNoOp == [][C14_Step]_vars

\* the dispatcher is not running, a failed entry's time has passed and a
\* pending entry is scheduled later than now
C14_Witness ==
    /\ pc = "idle"
    /\ NothingDue
    /\ \E i, j \in DOMAIN post_queue :
         /\ post_queue[i].status = "failed"
         /\ InstantLE(ParseIso(post_queue[i].scheduled_at), now)
         /\ post_queue[j].status = "pending"
         /\ ~InstantLE(ParseIso(post_queue[j].scheduled_at), now)

----------------------------------------------------------------------------
\* the ids of the rows in the lists a listing call can return
ListedIds(lists) == UNION {{s[k].id : k \in DOMAIN s} : s \in lists}

\* the ids list_queue() (no filter or any status) and list_due_queue() (at
\* any instant) can show
AllListedIds ==
    UNION ({ListedIds(list_queue(post_queue, st)) :
                st \in {NULL, Some("pending"), Some("posted"), Some("failed")}}
           \cup {ListedIds(list_due_queue(post_queue, IsoFormat(t))) : t \in Instants})

\* the step is a direct call delete_queue_item(id)
IsDelete == now' = now /\ api_call'.op = "delete"

C15_Step ==
    /\ IsDelete =>
        /\ api_call'.id \notin DOMAIN post_queue'
        /\ \A i \in DOMAIN post_queue \ {api_call'.id} :
             i \in DOMAIN post_queue' /\ post_queue'[i] = post_queue[i]
        /\ posts' = posts
    /\ \A i \in DOMAIN post_queue' \ DOMAIN post_queue : i >= next_id

C15_Listings ==
    /\ \A i \in DOMAIN post_queue : i < next_id
    /\ AllListedIds \subseteq DOMAIN post_queue
    /\ api_call.op = "delete" => api_call.id \notin AllListedIds

\* C15: delete_queue_item(id) removes the entry whatever its status and
\* leaves every other entry and every Post row as they were; the listings
\* show stored rows only and no id is given out twice, so the deleted id is
\* in no later result of list_queue() or list_due_queue().
C15_DeleteRemoves == [][C15_Step]_vars /\ []C15_Listings

\* a posted entry has just been deleted while another entry is still stored
C15_Witness ==
    /\ api_call.op = "delete"
    /\ api_call.was = Some(<<"posted", NULL>>)
    /\ api_call.id \notin DOMAIN post_queue
    /\ post_queue # <<>>
    /\ \E i \in DOMAIN post_queue : post_queue[i].status = "pending"

----------------------------------------------------------------------------
C16_Step ==
    (pc = "running" /\ pc' = "idle") =>
        /\ idx > Len(due_items)
        /\ ~DRY_RUN =>
             \A k \in DOMAIN due_items :
                /\ due_items[k].id \in DOMAIN post_queue
                /\ post_queue[due_items[k].id].status \in {"posted", "failed"}

\* C16: a cycle ends only after the loop has passed the last entry of the
\* due batch, whatever the publishers raised and whichever Posts are
\* missing; when a non-dry-run cycle ends, every entry of its batch is
\* 'posted' or 'failed'.
C16_FailureDoesNotAbort == [][C16_Step]_vars

\* a cycle over two entries is complete: the first entry failed (its Post is
\* missing or its publisher raised) and the second was posted after it
C16_Witness ==
    /\ LoopDone /\ ~DRY_RUN
    /\ Len(due_items) = 2
    /\ post_queue[due_items[1].id].status = "failed"
    /\ post_queue[due_items[2].id].status = "posted"
    /\ \/ ~PostExisted(due_items[1])
       \/ SomeRaised(due_items[1])

----------------------------------------------------------------------------
\* C17: a store error is never recorded as a platform failure: no entry's
\* error_msg carries the message of the exception a repository call raised
\* (the error leaves run() instead).
C17_StoreErrorNotFolded ==
    \A i \in DOMAIN post_queue :
        post_queue[i].error_msg # NULL =>
            ~Contains(post_queue[i].error_msg[1], <<STORE_ERROR>>)

----------------------------------------------------------------------------
\* the text the dispatcher records for a platform without credentials
KeyUnset(pl) == IF pl = "x" THEN X_KEY_UNSET ELSE IG_KEY_UNSET

\* C18: in a non-dry-run cycle, for every processed entry whose Post exists
\* and every targeted platform without credentials: no publish call was made
\* for that platform, the entry was written 'failed' with the platform's
\* credentials-missing text in error_msg, and a second targeted platform
\* with credentials was still called and its id stamped when it returned one.
C18_CredentialsMissing ==
    (pc = "running" /\ ~DRY_RUN) =>
        \A k \in Processed :
            LET item == due_items[k]
                row  == post_queue[item.id]
            IN
            PostExisted(item) =>
                \A pl \in TargetSet(item.platform) :
                    ~creds[pl] =>
                        /\ CallsOf(item.id, pl) = {}
                        /\ item.id \in written
                        /\ row.status = "failed"
                        /\ row.error_msg # NULL
                        /\ Contains(row.error_msg[1], KeyUnset(pl))
                        /\ \A other \in TargetSet(item.platform) \ {pl} :
                             creds[other] =>
                                /\ CallsOf(item.id, other) # {}
                                /\ \A c \in CallsOf(item.id, other) :
                                     calls[c].res.ok =>
                                        StampOf(posts[item.post_id], other)
                                            = Some(calls[c].res.val)

\* a finished cycle without X credentials in which a 'both' entry went out
\* on Instagram only and a later entry of the batch was processed after it
C18_Witness ==
    /\ LoopDone /\ ~DRY_RUN
    /\ ~creds["x"] /\ creds["instagram"]
    /\ Len(due_items) = 2
    /\ due_items[1].platform = "both"
    /\ PostExisted(due_items[1])
    /\ CallsOf(due_items[1].id, "x") = {}
    /\ posts[due_items[1].post_id].ig_media_id = Some("ig77")
    /\ posts[due_items[1].post_id].tweet_id = NULL
    /\ post_queue[due_items[1].id].status = "failed"
    /\ post_queue[due_items[1].id].error_msg = Some(X_KEY_UNSET)
    /\ due_items[2].id \in written

----------------------------------------------------------------------------
\* the dispatcher's steps 2c-2d and the 'post now' handler, applied to the
\* same entry in the same store under credential state c, with the platforms
\* answering xres / igres: same queue, same posts, same platforms called
SamePathOutcome(row, c, xres, igres) ==
    LET d == run_item(row, post_queue, posts, FALSE, c, xres, igres, IsoFormat(now))
    IN  \A mx \in publish_unchecked("x", c["x"], xres),
           mi \in publish_unchecked("instagram", c["instagram"], igres),
           fbres \in Returned(FbIds) \cup Raised :
            LET m == post_now(row, post_queue, posts, mx, mi, fbres, IsoFormat(now))
            IN  /\ m.queue = d.queue
                /\ m.posts = d.posts
                /\ [k \in DOMAIN m.calls |-> m.calls[k].platform]
                     = [k \in DOMAIN d.calls |-> d.calls[k].platform]

\* the entries both paths can be applied to
BothPathsRows ==
    {row \in list_queue_with_posts(post_queue, posts) :
        can_post_now(row) /\ row.platform \in {"x", "instagram", "both"}}

----------------------------------------------------------------------------
\* C20: 'post now' on a displayed pending or failed entry with platform
\* 'facebook' whose Facebook publish call returns an id leaves the entry
\* 'posted' with posted_at set and error_msg null.
C20_FacebookPostNow ==
    pc = "idle" =>
        \A row \in list_queue_with_posts(post_queue, posts) :
            (can_post_now(row) /\ row.platform = "facebook") =>
                \A xres \in Returned(TweetIds) \cup Raised,
                   igres \in Returned(IgIds) \cup Raised,
                   fbres \in Returned(FbIds) :
                    LET m == post_now(row, post_queue, posts, xres, igres, fbres,
                                      IsoFormat(now))
                    IN  /\ m.queue[row.id].status = "posted"
                        /\ m.queue[row.id].posted_at # NULL
                        /\ m.queue[row.id].error_msg = NULL

----------------------------------------------------------------------------
\* C21: every 'failed' entry of the store, whatever its error text, is among
\* the rows of the schedule page (list_queue_with_posts) with that text, and
\* as a displayed failed row it has the 'post now' and the delete button.
C21_FailedStaysVisible ==
    \A i \in DOMAIN post_queue :
        post_queue[i].status = "failed" =>
            /\ post_queue[i] \in list_queue_with_posts(post_queue, posts)
            /\ can_post_now(post_queue[i])

----------------------------------------------------------------------------
\* the entries a step inserts
NewIds == DOMAIN post_queue' \ DOMAIN post_queue

C22_Step ==
    drafts' # drafts =>
        /\ drafts' \subseteq drafts
        /\ Cardinality(NewIds) = Cardinality(drafts \ drafts')
        /\ \A d \in drafts \ drafts' :
             \E i \in NewIds :
                /\ post_queue'[i].post_id = d
                /\ post_queue'[i].status = "pending"
                /\ post_queue'[i].error_msg = NULL
                /\ post_queue'[i].posted_at = NULL
                /\ post_queue'[i].platform \in Platforms
                /\ \E sec \in 0..MaxSec :
                     post_queue'[i].scheduled_at = IsoFormat(<<sec, 0>>)
                /\ \A j \in NewIds : post_queue'[j].post_id = d => j = i
        /\ \A i \in NewIds : post_queue'[i].platform = post_queue'[next_id].platform

----------------------------------------------------------------------------
\* the columns of a row that are fixed at creation
Fixed(row) == <<row.id, row.post_id, row.platform, row.scheduled_at, row.created_at>>

\* q2 differs from q at most in status, error_msg and posted_at of entry id
FrameOf(q, q2, id) ==
    /\ DOMAIN q2 = DOMAIN q
    /\ \A i \in DOMAIN q :
         /\ Fixed(q2[i]) = Fixed(q[i])
         /\ i # id => q2[i] = q[i]

C23_Step ==
    /\ \A i \in DOMAIN post_queue \cap DOMAIN post_queue' :
         Fixed(post_queue'[i]) = Fixed(post_queue[i])
    /\ Cardinality({i \in DOMAIN post_queue \cap DOMAIN post_queue' :
                        post_queue'[i] # post_queue[i]}) <= 1
    /\ (pc = "running" /\ post_queue' # post_queue) =>
            FrameOf(post_queue, post_queue', due_items[idx].id)

C23_UpdateFrame ==
    \A id \in 1..MaxPosts, status \in {"pending", "posted", "failed"},
       error_msg \in {NULL, Some(POST_NOT_FOUND)},
       posted_at \in {NULL, Some(IsoFormat(<<0, 0>>))} :
        FrameOf(post_queue,
                update_queue_status(post_queue, id, status, error_msg, posted_at,
                                    IsoFormat(now)),
                id)

\* C23: no step of a dispatch cycle or of the pages changes post_id,
\* platform, scheduled_at or created_at of an existing entry; a step changes
\* at most one entry, a dispatcher step only the entry it is processing; and
\* update_queue_status with any arguments changes at most status, error_msg
\* and posted_at of the entry it names.
C23_FixedAtCreation == [][C23_Step]_vars /\ []C23_UpdateFrame

\* in a cycle over two entries the first has been written 'posted' while the
\* second is as list_due_queue returned it
C23_Witness ==
    /\ pc = "running" /\ ~DRY_RUN
    /\ Len(due_items) = 2 /\ idx = 2
    /\ post_queue[due_items[1].id].status = "posted"
    /\ Fixed(post_queue[due_items[1].id]) = Fixed(due_items[1])
    /\ post_queue[due_items[2].id] = due_items[2]

----------------------------------------------------------------------------
C24_Step ==
    /\ next_id' >= next_id
    /\ NewIds # {} =>
        /\ api_call'.op = "add"
        /\ NewIds = {api_call'.id}
        /\ api_call'.id >= next_id
        /\ next_id' > api_call'.id
        /\ post_queue'[api_call'.id].id = api_call'.id
        /\ post_queue'[api_call'.id].status = api_call'.status
        /\ post_queue'[api_call'.id].created_at = IsoFormat(now)
        /\ \A i \in DOMAIN post_queue :
             i \in DOMAIN post_queue' /\ post_queue'[i] = post_queue[i]

\* every id given out so far is below the counter
C24_IdsBelowCounter == \A i \in DOMAIN post_queue : i < next_id

\* C24: add_to_queue inserts exactly one entry, with status 'pending' unless
\* the caller passed another one, under an id that is at least the counter,
\* which only grows and lies above every id given out so far (so the id
\* differs from that of every entry that exists or was deleted), and leaves
\* the existing entries unchanged.
C24_AddFreshId == [][C24_Step]_vars /\ []C24_IdsBelowCounter

\* entry 1 was deleted and the entry added after it got id 2
C24_Witness ==
    /\ api_call.op = "add"
    /\ api_call.id = 2
    /\ api_call.status = "pending"
    /\ DOMAIN post_queue = {2}
    /\ post_queue[2].status = "pending"

----------------------------------------------------------------------------
\* whenever a non-dry-run cycle is about to touch its next entry, the
\* entries before it in the batch are 'posted' or 'failed' in the store
C25_Decided ==
    (pc = "running" /\ ~DRY_RUN) =>
        \A k \in Processed :
            /\ due_items[k].id \in DOMAIN post_queue
            /\ post_queue[due_items[k].id].status \in {"posted", "failed"}

\* a cycle, also one started after a crash, calls no publisher that the
\* dispatcher called for the entry before
C25_Step ==
    (pc = "running" /\ idx' = idx + 1) =>
        \A k \in NewCalls :
            <<calls'[k].queue_id, calls'[k].platform>> \notin published

\* C25: in a non-dry-run cycle the outcome of an entry is in the store
\* before the loop touches the next entry: when the k-th entry's post lookup
\* starts, entries 1..k-1 of the batch are 'posted' or 'failed'; so when the
\* process dies at that point, the cycles that follow do not publish
\* entries 1..k-1 again.
C25_OutcomeBeforeNext == []C25_Decided /\ [][C25_Step]_vars

\* a fresh cycle has processed an entry that an earlier cycle left pending
\* although it had published, in the same batch, the entry registered after
\* it for the same time: that cycle died between the two
C25_Witness ==
    /\ LoopDone /\ ~DRY_RUN
    /\ Len(due_items) = 1
    /\ calls # <<>>
    /\ \E a \in DOMAIN cycle_queue :
         /\ a > due_items[1].id
         /\ cycle_queue[a].status = "posted"
         /\ cycle_queue[a].scheduled_at = due_items[1].scheduled_at
         /\ cycle_queue[a].created_at = due_items[1].created_at
         /\ \E pl \in {"x", "instagram"} : <<a, pl>> \in published

----------------------------------------------------------------------------
\* C26: for a displayed 'both' entry that is 'failed' while its Post carries
\* the id of one platform, the retry by 'post now' makes no publish call for
\* that platform, whatever the platforms answer.
C26_RetryOnlyRemaining ==
    pc = "idle" =>
        \A row \in list_queue_with_posts(post_queue, posts) :
            (row.platform = "both" /\ row.status = "failed" /\ can_post_now(row)) =>
                \A pl \in {"x", "instagram"} :
                    StampOf(posts[row.post_id], pl) # NULL =>
                        \A xres \in Returned(TweetIds) \cup Raised,
                           igres \in Returned(IgIds) \cup Raised,
                           fbres \in Returned(FbIds) \cup Raised :
                            LET m == post_now(row, post_queue, posts, xres, igres,
                                              fbres, IsoFormat(now))
                            IN  \A k \in DOMAIN m.calls : m.calls[k].platform # pl

----------------------------------------------------------------------------
C27_Step ==
    (pc = "running" /\ idx' = idx + 1 /\ ~DRY_RUN
        /\ due_items[idx].post_id \in DOMAIN posts) =>
        \A pl \in TargetSet(due_items[idx].platform) :
            creds[pl] =>
                \E k \in NewCalls :
                    /\ calls'[k].queue_id = due_items[idx].id
                    /\ calls'[k].platform = pl

\* C27: there is no claim step: an iteration of a non-dry-run cycle calls
\* the publisher of every targeted platform with credentials for the entry
\* as list_due_queue returned it, whatever another process has written to
\* the store for that entry since; so an overlapping invocation that read
\* the entry as pending too publishes it a second time.
C27_NoClaimStep == [][C27_Step]_vars

\* double posting: the cycle read an entry as pending, another process
\* published it on X successfully, and then the cycle's own iteration
\* published it on X successfully again
C27_Witness ==
    /\ pc = "running" /\ idx = 2
    /\ Len(calls) = 2
    /\ cycle_queue[due_items[1].id].status = "pending"
    /\ due_items[1].platform = "x"
    /\ \A k \in 1..2 :
         /\ calls[k].queue_id = due_items[1].id
         /\ calls[k].platform = "x"
         /\ calls[k].res.ok

----------------------------------------------------------------------------
\* C28: during a non-dry-run cycle an entry the loop has processed is
\* 'posted' only if the cycle made at least one publisher call for that entry
\* that returned successfully, whatever platform value the entry carries
\* ('facebook' and unrecognised values included).
C28_PostedOnlyAfterSuccess ==
    (pc = "running" /\ ~DRY_RUN) =>
        \A k \in Processed :
            LET item == due_items[k]
            IN  (item.id \in DOMAIN post_queue
                    /\ post_queue[item.id].status = "posted") =>
                    \E c \in DOMAIN calls :
                        calls[c].queue_id = item.id /\ calls[c].res.ok

----------------------------------------------------------------------------
(* Progress of the dispatcher.  cron keeps starting auto_post.py without
   --dry-run: whenever again and again an invocation could find something
   due, one that is not a dry run does (strong fairness, since the process
   cannot be started while a cycle is still running in this sequential
   model).  Store operations and publisher calls return: a started loop
   takes its next iteration and the process exits (weak fairness).  No
   fairness is put on the clock, on the pages or on dry runs. *)

\* an invocation without --dry-run that finds something due
RunStartLive == RunStart /\ pc' = "running" /\ ~DRY_RUN'

NextLive ==
    \/ Tick
    \/ RegisterDrafts
    \/ RunStart
    \/ RunItem
    \/ RunEnd
    \/ DeleteItem

SpecLive ==
    /\ Init
    /\ [][NextLive]_vars
    /\ SF_vars(RunStartLive)
    /\ WF_vars(RunItem)
    /\ WF_vars(RunEnd)

\* entry id is in the queue, pending, and its time has come
PendingDue(id) ==
    /\ id \in DOMAIN post_queue
    /\ post_queue[id].status = "pending"
    /\ TextLE(post_queue[id].scheduled_at, IsoFormat(now))

\* entry id has an outcome or is gone
Settled(id) ==
    \/ id \notin DOMAIN post_queue
    \/ post_queue[id].status \in {"posted", "failed"}

\* C29: as long as non-dry-run cycles keep being invoked and every store
\* operation and publisher call returns, an entry that is pending with
\* scheduled_at <= now is eventually posted, failed or deleted.
C29_DueEventuallySettled ==
    \A id \in 1..MaxPosts : PendingDue(id) ~> Settled(id)

\* an entry scheduled for a later second than its registration came due as
\* the clock advanced, and a non-dry-run cycle has given it its outcome
C29_Witness ==
    /\ pc = "running" /\ ~DRY_RUN
    /\ \E k \in Processed :
         LET item == due_items[k]
         IN  /\ item.id \in DOMAIN post_queue
             /\ ParseIso(item.created_at)[1] < ParseIso(item.scheduled_at)[1]
             /\ cycle_queue[item.id].status = "pending"
             /\ post_queue[item.id].status \in {"posted", "failed"}

----------------------------------------------------------------------------
\* the ids that have been given out and are no longer in the queue
DeletedIds == (1..(next_id - 1)) \ DOMAIN post_queue

\* the iteration of the cycle is for an entry that has been deleted since
\* list_due_queue returned it
C30_LoopOnDeleted ==
    pc = "running" /\ idx' = idx + 1 /\ due_items[idx].id \in DeletedIds

\* a "post now" whose row is deleted while it publishes
C30_ManualOnDeleted ==
    pc = "idle" /\ pc' = "idle" /\ next_id' = next_id
        /\ DOMAIN post_queue' # DOMAIN post_queue

C30_Step ==
    /\ DeletedIds \subseteq DeletedIds'
    /\ C30_LoopOnDeleted =>
         LET item == due_items[idx]
         IN  /\ post_queue' = post_queue
             /\ item.id \notin AllListedIds'
             /\ (~DRY_RUN /\ item.post_id \in DOMAIN posts) =>
                    \A pl \in TargetSet(item.platform) :
                        creds[pl] =>
                            \E k \in NewCalls :
                                /\ calls'[k].queue_id = item.id
                                /\ calls'[k].platform = pl
    /\ C30_ManualOnDeleted =>
         \E id \in DOMAIN post_queue :
             /\ post_queue' = delete_queue_item(post_queue, id)
             /\ id \notin AllListedIds'
             /\ \A pl \in TargetSet(post_queue[id].platform) :
                    \E k \in NewCalls :
                        /\ calls'[k].queue_id = id
                        /\ calls'[k].platform = pl

\* C30: a deleted entry is never re-created.  When an entry is deleted after
\* a cycle or a "post now" has read it and before that run writes its
\* outcome, the outcome write changes nothing and the entry stays absent from
\* every list, while the run still makes the publisher calls for the entry.
C30_DeletedStaysDeleted == [][C30_Step]_vars

\* a cycle has published on X, successfully, an entry that was deleted before
\* its iteration, and the entry is not in the queue
C30_Witness ==
    /\ pc = "running" /\ ~DRY_RUN
    /\ \E k \in Processed :
         LET item == due_items[k]
         IN  /\ item.id \in DeletedIds
             /\ <<item.id, "x">> \in published
             /\ \E c \in CallsOf(item.id, "x") : calls[c].res.ok

====
